---- MODULE Spec2Model ----
(***************************************************************************)
(* aspect-reauth: one run of the program (src/src/main.rs), the SSH        *)
(* multiplexer it drives (src/src/ssh_mux/mod.rs, config.rs,               *)
(* temp_socket.rs), and the freshness decision needs_refresh as a function *)
(* of the probe subprocess's behaviour.                                    *)
(*                                                                         *)
(* A subprocess's standard error is a sequence of characters, a byte that  *)
(* is not valid UTF-8 being one element of it.  The output of `ssh -G` is  *)
(* a sequence of tokens: an option with its value, one white-space         *)
(* character, or one undecodable byte.                                     *)
(***************************************************************************)
EXTENDS Integers, Sequences, FiniteSets, TLC

VARIABLES
    pc,         \* position of async_main / SshMux::new / the drop glue
    args,       \* struct Args (the fields the run reads)
    create,     \* the resolved create-socket flag: "unset", TRUE or FALSE
    sock,       \* where the TempSocket value lives: "none", "new", "mux", "cleanup", "dropped"
    dir,        \* the temporary directory on disk: "none", "exists", "removed"
    kc,         \* the OS keychain: entry name -> password or NoEntry
    password,   \* the local variable `password` of async_main
    remote_nr,  \* value of remote_needs_refresh once awaited: "unset", TRUE or FALSE
    post_nr,    \* value of the post-push needs_refresh: "unset", TRUE or FALSE
    log,        \* history: every subprocess, keychain and teardown step, in order
    result,     \* what async_main returns ("running" until it returns)
    warnings,   \* lines the run wrote with eprintln! that are not the fatal error
    exit_code,  \* the process exit status (-1 while running)
    pr,         \* the probe under study in SpecProbe: behaviour in, decision out
    cq,         \* the configuration query under study in SpecInfer: output in, flag out
    io          \* the pipes of one piped subprocess, under study in SpecPipe

vars == <<pc, args, create, sock, dir, kc, password, remote_nr, post_nr, log,
          result, warnings, exit_code, pr, cq, io>>

runVars == <<pc, args, create, sock, dir, kc, password, remote_nr, post_nr, log,
             result, warnings, exit_code>>

(***************************************************************************)
(* Bounds and input alphabets.                                             *)
(***************************************************************************)
MaxTokens == 4

MaxCfgTokens == 4

MaxCalls == 3

\* the pipes of a subprocess: capacity of each, bytes the parent has to write,
\* bytes the child writes to its error output
MaxCap == 2

MaxPayload == 3

MaxErr == 3

Helper == "helper"

Statuses == {0, 1, 255}

Creds == {"old", "new"}

NoEntry == "none"

NoText == <<>>

(***************************************************************************)
(* Characters.  A text is a sequence of characters, each written as a      *)
(* one-character string; characters with no TLA+ notation, and a byte that *)
(* is not valid UTF-8, are written as named tokens.                        *)
(***************************************************************************)
\* a byte that is no part of a valid UTF-8 sequence (0xff)
BadByte == "<ff>"

\* U+FFFD, what String::from_utf8_lossy puts in its place
Replacement == "<U+FFFD>"

\* U+017F LATIN SMALL LETTER LONG S and U+212A KELVIN SIGN: the two characters
\* outside ASCII whose simple case folding is an ASCII letter
LongS == "<U+017F>"

KelvinSign == "<U+212A>"

\* the Unicode property White_Space: \s of the regex (Unicode mode) and
\* char::is_whitespace of str::trim
WhiteSpace ==
    {" ", "\t", "\n", "<U+000B>", "\f", "\r", "<U+0085>", "<U+00A0>", "<U+1680>",
     "<U+2000>", "<U+2001>", "<U+2002>", "<U+2003>", "<U+2004>", "<U+2005>",
     "<U+2006>", "<U+2007>", "<U+2008>", "<U+2009>", "<U+200A>", "<U+2028>",
     "<U+2029>", "<U+202F>", "<U+205F>", "<U+3000>"}

IsSpace(c) == c \in WhiteSpace

Upper == <<"A", "B", "C", "D", "E", "F", "G", "H", "I", "J", "K", "L", "M",
           "N", "O", "P", "Q", "R", "S", "T", "U", "V", "W", "X", "Y", "Z">>

Lower == <<"a", "b", "c", "d", "e", "f", "g", "h", "i", "j", "k", "l", "m",
           "n", "o", "p", "q", "r", "s", "t", "u", "v", "w", "x", "y", "z">>

\* simple case folding of one character (the regex's `i` flag)
Fold(c) ==
    IF \E i \in 1..26 : Upper[i] = c THEN Lower[CHOOSE i \in 1..26 : Upper[i] = c]
    ELSE IF c = LongS THEN "s"
    ELSE IF c = KelvinSign THEN "k"
    ELSE c

\* the characters of the words the model writes
Chars(w) ==
    CASE w = "please" -> <<"p", "l", "e", "a", "s", "e">>
      [] w = "Please" -> <<"P", "l", "e", "a", "s", "e">>
      [] w = "PLEASE" -> <<"P", "L", "E", "A", "S", "E">>
      [] w = "pLeA<U+017F>E" -> <<"p", "L", "e", "A", LongS, "E">>
      [] w = "displease" -> <<"d", "i", "s", "p", "l", "e", "a", "s", "e">>
      [] w = "run" -> <<"r", "u", "n">>
      [] w = "Run" -> <<"R", "u", "n">>
      [] w = "helper" -> <<"h", "e", "l", "p", "e", "r">>
      [] w = "Helper" -> <<"H", "e", "l", "p", "e", "r">>
      [] w = "thehelper" -> <<"t", "h", "e", "h", "e", "l", "p", "e", "r">>
      [] w = "other" -> <<"o", "t", "h", "e", "r">>
      [] w = "OTHER" -> <<"O", "T", "H", "E", "R">>
      [] w = "login" -> <<"l", "o", "g", "i", "n">>
      [] w = "LOGIN" -> <<"L", "O", "G", "I", "N">>
      [] w = "loginx" -> <<"l", "o", "g", "i", "n", "x">>
      [] w = "logout" -> <<"l", "o", "g", "o", "u", "t">>
      [] w = "x" -> <<"x">>

RECURSIVE Flatten(_)
Flatten(ss) == IF ss = <<>> THEN <<>> ELSE Head(ss) \o Flatten(Tail(ss))

\* the pieces the enumerated error texts are made of
Tokens == {Chars("Please") \o <<" ">> \o Chars("run"), Chars("Please"),
           Chars("helper"), Chars("login"), <<" ">>, <<"\n">>, <<"x">>}

\* String::from_utf8_lossy
Lossy(s) == [i \in 1..Len(s) |-> IF s[i] = BadByte THEN Replacement ELSE s[i]]

RECURSIVE TrimStart(_)
TrimStart(s) ==
    IF s # <<>> /\ IsSpace(Head(s)) THEN TrimStart(Tail(s)) ELSE s

RECURSIVE TrimEnd(_)
TrimEnd(s) ==
    IF s # <<>> /\ IsSpace(s[Len(s)]) THEN TrimEnd(SubSeq(s, 1, Len(s) - 1)) ELSE s

\* str::trim
Trim(s) == TrimEnd(TrimStart(s))

\* String::from_utf8_lossy(..).trim(): the error text of a bail!
ErrorText(s) == Trim(Lossy(s))

RECURSIVE SeqsUpTo(_, _)
SeqsUpTo(S, n) ==
    IF n = 0 THEN {<<>>}
    ELSE LET shorter == SeqsUpTo(S, n - 1)
         IN  shorter \cup {Append(s, t) : s \in {x \in shorter : Len(x) = n - 1}, t \in S}

(***************************************************************************)
(* The regular expression of needs_refresh,                                *)
(*     (?mis)please\s+run.*<helper>\s+login                                *)
(* as a sequence of elements, and a backtracking matcher for it.           *)
(***************************************************************************)
Lit(v) == [t |-> "lit", v |-> v]

SpacePlus == [t |-> "s+", v |-> ""]

DotStar == [t |-> ".*", v |-> ""]

\* a word of the pattern: one literal per character; regex::escape makes
\* every character of the helper name such a literal
Lits(cs) == [i \in 1..Len(cs) |-> Lit(cs[i])]

\* Regex::new(&format!(r"(?mis)please\s+run.*{}\s+login", regex::escape(helper)))
ProbePattern(helper) ==
    Lits(Chars("please")) \o <<SpacePlus>> \o Lits(Chars("run")) \o <<DotStar>>
        \o Lits(Chars(helper)) \o <<SpacePlus>> \o Lits(Chars("login"))

\* flag i: a literal character matches case-insensitively
LitMatches(v, c) == Fold(c) = Fold(v)

\* flag s: `.` matches every character, the newline included; it matches no
\* byte that is not valid UTF-8
DotMatches(c) == c # BadByte

RECURSIVE MatchHere(_, _, _, _)
MatchHere(pat, p, s, i) ==
    IF p > Len(pat) THEN TRUE
    ELSE LET e == pat[p]
         IN  CASE e.t = "lit" ->
                    /\ i <= Len(s)
                    /\ LitMatches(e.v, s[i])
                    /\ MatchHere(pat, p + 1, s, i + 1)
               [] e.t = "s+" ->
                    /\ i <= Len(s)
                    /\ IsSpace(s[i])
                    /\ (MatchHere(pat, p + 1, s, i + 1) \/ MatchHere(pat, p, s, i + 1))
               [] e.t = ".*" ->
                    \/ MatchHere(pat, p + 1, s, i)
                    \/ (i <= Len(s) /\ DotMatches(s[i]) /\ MatchHere(pat, p, s, i + 1))

\* Regex::is_match: an unanchored search
ReIsMatch(pat, s) == \E i \in 1..(Len(s) + 1) : MatchHere(pat, 1, s, i)

(***************************************************************************)
(* Behaviour of a subprocess, as the parent observes it.                   *)
(*   spawn_err : the process could not be started                          *)
(*   write_err : writing its standard input failed                         *)
(*   wait_err  : waiting for it / collecting its output failed             *)
(*   exit      : it ran to completion with `status` and the text `out`     *)
(*               on the captured stream                                    *)
(* `running` tells whether the process is still running when the parent    *)
(* stops attending to it; a process whose exit was collected is not.       *)
(***************************************************************************)
Beh(kind, status, out) ==
    [kind |-> kind, status |-> status, out |-> out, running |-> FALSE]

\* the parent gave up on the child (`?` on write_all or on output()) without
\* waiting for it or killing it: the process may run on
LeftRunning(b) == [b EXCEPT !.running = TRUE]

SpawnErr == Beh("spawn_err", -1, NoText)

WriteErr == Beh("write_err", -1, NoText)

WaitErr == Beh("wait_err", -1, NoText)

Exited(S, T) == {Beh("exit", st, t) : st \in S, t \in T}

\* ExitStatus::success
Success(status) == status = 0

(***************************************************************************)
(* needs_refresh (main.rs 185-223): the decision for one probe, or the     *)
(* error it fails with.                                                    *)
(***************************************************************************)
NrOk(b) == [ok |-> TRUE, val |-> b, err |-> "", status |-> -1, text |-> NoText]

NrErr(e, status, text) == [ok |-> FALSE, val |-> FALSE, err |-> e, status |-> status, text |-> text]

needs_refresh_AnyFailureIsLogin(helper, b) ==
    IF b.kind = "spawn_err" THEN NrErr("probe_spawn", -1, NoText)
    ELSE IF b.kind = "write_err" THEN NrErr("probe_io", -1, NoText)
    ELSE IF b.kind = "wait_err" THEN NrErr("probe_wait", -1, NoText)
    ELSE NrOk(~Success(b.status))

needs_refresh(helper, b) ==
    IF b.kind = "spawn_err" THEN NrErr("probe_spawn", -1, NoText)
    ELSE IF b.kind = "write_err" THEN NrErr("probe_io", -1, NoText)
    ELSE IF b.kind = "wait_err" THEN NrErr("probe_wait", -1, NoText)
    ELSE IF ~Success(b.status)
         THEN IF ~ReIsMatch(ProbePattern(helper), b.out)
              THEN NrErr("probe", b.status, ErrorText(b.out))
              ELSE NrOk(TRUE)
         ELSE NrOk(FALSE)

(***************************************************************************)
(* infer_create_socket (ssh_mux/config.rs 29-39).                          *)
(***************************************************************************)
\* String::from_utf8 succeeds
ValidUtf8(s) == \A i \in 1..Len(s) : s[i] # BadByte

\* a line that ended in "\n": one "\r" before it belongs to the line ending
StripCr(line) ==
    IF line # <<>> /\ line[Len(line)] = "\r" THEN SubSeq(line, 1, Len(line) - 1) ELSE line

\* the lines of s after the unfinished line cur; a last line without "\n"
\* is kept as it is, a "\r" at its end included
RECURSIVE SplitLines(_, _)
SplitLines(s, cur) ==
    IF s = <<>> THEN (IF cur = <<>> THEN <<>> ELSE <<cur>>)
    ELSE IF Head(s) = "\n" THEN <<StripCr(cur)>> \o SplitLines(Tail(s), <<>>)
    ELSE SplitLines(Tail(s), Append(cur, Head(s)))

\* str::lines: split at "\n" and "\r\n"
Lines(s) == SplitLines(s, <<>>)

infer_create_socket_TrueOnError(b) ==
    IF b.kind # "exit" THEN TRUE
    ELSE IF ~Success(b.status) THEN TRUE
    ELSE IF ValidUtf8(b.out)
         THEN ~(\E k \in 1..Len(Lines(b.out)) : Lines(b.out)[k] = <<"controlmaster auto">>)
         ELSE TRUE

infer_create_socket_Trimmed(b) ==
    IF b.kind # "exit" THEN FALSE
    ELSE IF ~Success(b.status) THEN FALSE
    ELSE IF ValidUtf8(b.out)
         THEN ~(\E k \in 1..Len(Lines(b.out)) : Trim(Lines(b.out)[k]) = <<"controlmaster auto">>)
         ELSE FALSE

infer_create_socket(b) ==
    IF b.kind # "exit" THEN FALSE
    ELSE IF ~Success(b.status) THEN FALSE
    ELSE IF ValidUtf8(b.out)
         THEN ~(\E k \in 1..Len(Lines(b.out)) : Lines(b.out)[k] = <<"controlmaster auto">>)
         ELSE FALSE

(***************************************************************************)
(* The run: state, inputs and environment.                                 *)
(***************************************************************************)
KcNames == {"aspect-reauth", "AspectWorkflows"}

\* the positional host (default "devbox") and the --ssh-arg lists
Hosts == {"devbox"}

SshArgLists == {<<>>, <<"-p 23">>}

\* the path TempSocket::new made for this run: <tempdir>/sock
SocketPath == "aspect-reauth-XXXXXX/sock"

B2S(b) == IF b THEN "true" ELSE "false"

\* "Please run helper login\n": what the credential helper prints when a login is due
PleaseText ==
    Chars("Please") \o <<" ">> \o Chars("run") \o <<" ">> \o Chars("helper")
        \o <<" ">> \o Chars("login") \o <<"\n">>

\* the captured standard-error texts the run's subprocesses print
RunTexts == {NoText, <<"x", "\n">>, PleaseText}

\* what `ssh -G -- host` prints
ConfigOutputs ==
    { <<"controlmaster no", "\n">>,
      <<"x", "\n", "controlmaster auto", "\n", "controlpersist yes", "\n">>,
      <<" ", "controlmaster auto", "\n">>,
      <<"controlmaster auto", "\r", "\n">>,
      <<"controlmaster auto", BadByte, "\n">> }

\* a subprocess whose input is written and whose standard error is captured
PipedBehaviours ==
    {SpawnErr, WriteErr, WaitErr, LeftRunning(WriteErr), LeftRunning(WaitErr)}
        \cup Exited(Statuses, RunTexts)

\* a subprocess with nothing written to it, awaited by output() or status():
\* not started, run to an exit, or started and then the wait for it failed
PlainBehaviours(T) == {SpawnErr, WaitErr} \cup Exited(Statuses, T)

\* the command lines clap accepts: --force conflicts with --force-local and
\* --force-remote, --no-create-socket with an explicit --create-socket
RawArgs ==
    { a \in [force : BOOLEAN, force_local : BOOLEAN, force_remote : BOOLEAN,
             create_socket : {"Infer", "True", "False"}, no_create_socket : BOOLEAN,
             host : Hosts, ssh_args : SshArgLists] :
        /\ a.force => (~a.force_local /\ ~a.force_remote)
        /\ a.no_create_socket => a.create_socket = "Infer" }

\* no flag given: the defaults of Args
DefaultArgs ==
    [force |-> FALSE, force_local |-> FALSE, force_remote |-> FALSE,
     create_socket |-> "Infer", no_create_socket |-> FALSE,
     host |-> "devbox", ssh_args |-> <<>>]

\* a step of the history that is no subprocess
Ev(op, ok, name, val) ==
    [op |-> op, ok |-> ok, kind |-> "", status |-> -1, name |-> name, val |-> val,
     text |-> NoText, running |-> FALSE, argv |-> <<>>]

\* a subprocess of the history, with how it behaved
EvB(op, b, name, val) ==
    [op |-> op, ok |-> b.kind = "exit" /\ Success(b.status), kind |-> b.kind,
     status |-> b.status, name |-> name, val |-> val, text |-> b.out,
     running |-> b.running, argv |-> <<>>]

\* a probe of the history: what needs_refresh returned, and how the helper behaved
EvP(op, r, b) ==
    [op |-> op, ok |-> r.ok, kind |-> b.kind, status |-> -1, name |-> "",
     val |-> B2S(r.val), text |-> NoText, running |-> b.running, argv |-> <<>>]

\* an event of a subprocess made by ssh.command: the command line it was given
WithArgv(e, argv) == [e EXCEPT !.argv = argv]

Running == [kind |-> "running", msg |-> "", who |-> "", status |-> -1, text |-> NoText]

Ok(msg) == [kind |-> "ok", msg |-> msg, who |-> "", status |-> -1, text |-> NoText]

Err(msg, who, status, text) ==
    [kind |-> "err", msg |-> msg, who |-> who, status |-> status, text |-> text]

PrIdle == [phase |-> "idle", helper |-> Helper, b |-> SpawnErr, r |-> NrOk(FALSE)]

CqIdle == [phase |-> "idle", b |-> SpawnErr, flag |-> "unset"]

IoIdle == [phase |-> "idle"]

Init ==
    /\ pc = "parse"
    /\ args \in RawArgs
    /\ create = "unset"
    /\ sock = "none"
    /\ dir = "none"
    /\ kc \in [KcNames -> {NoEntry, "old"}]
    /\ password = NoEntry
    /\ remote_nr = "unset"
    /\ post_nr = "unset"
    /\ log = <<>>
    /\ result = Running
    /\ warnings = <<>>
    /\ exit_code = -1
    /\ pr = PrIdle
    /\ cq = CqIdle
    /\ io = IoIdle

(***************************************************************************)
(* async_main, lines 90-98: the flag overrides.                            *)
(***************************************************************************)
ParseArgs ==
    /\ pc = "parse"
    /\ args' = [args EXCEPT
                  !.create_socket = IF args.no_create_socket THEN "False" ELSE @,
                  !.force_remote = IF args.force THEN TRUE ELSE @,
                  !.force_local = IF args.force THEN TRUE ELSE @]
    /\ pc' = "resolve"
    /\ UNCHANGED <<create, sock, dir, kc, password, remote_nr, post_nr, log, result,
                   warnings, exit_code, pr, cq, io>>

(***************************************************************************)
(* SshMux::new (ssh_mux/mod.rs 46-94) and SshMux::command (96-114).        *)
(***************************************************************************)
\* the SshMux value while its socket field is s: lines 88-92
Session(a, s) ==
    [host |-> a.host, ssh_args |-> a.ssh_args,
     socket |-> IF s = "mux" THEN SocketPath ELSE "none"]

\* the options every command of the session is given (lines 103-108)
BatchOptions ==
    <<"-xT", "-oPermitLocalCommand=no", "-oClearAllForwardings=yes",
      "-oRemoteCommand=none", "-oForwardAgent=no", "-oBatchMode=yes">>

command_NoSocket(session, cmd) ==
    <<"ssh">> \o session.ssh_args \o BatchOptions \o <<"--", session.host, cmd>>

\* SshMux::command: takes &self, returns the command line
command(session, cmd) ==
    <<"ssh">> \o session.ssh_args
        \o (IF session.socket # "none" THEN <<"-S", session.socket>> ELSE <<>>)
        \o BatchOptions \o <<"--", session.host, cmd>>

into_option_bool_AlwaysInfer(cs) == "none"

\* CreateSocket::into_option_bool: "none" for Infer
into_option_bool(cs) ==
    CASE cs = "Infer" -> "none"
      [] cs = "True" -> "true"
      [] cs = "False" -> "false"

\* how `ssh -G -- host` may behave: it prints the configuration and exits 0,
\* or it fails; nothing it prints is read when it fails
ConfigBehaviours ==
    {SpawnErr, WaitErr} \cup Exited({0}, ConfigOutputs) \cup Exited(Statuses \ {0}, {NoText})

\* lines 51-54: the explicit value, or the inference from `ssh -G`
Resolve ==
    /\ pc = "resolve"
    /\ \/ /\ into_option_bool(args.create_socket) # "none"
          /\ create' = into_option_bool(args.create_socket)
          /\ log' = log
       \/ /\ into_option_bool(args.create_socket) = "none"
          /\ \E b \in ConfigBehaviours :
                /\ create' = B2S(infer_create_socket(b))
                /\ log' = Append(log, EvB("ssh_G", b, "", ""))
    /\ pc' = IF create' = "true" THEN "mktemp" ELSE "master"
    /\ UNCHANGED <<args, sock, dir, kc, password, remote_nr, post_nr, result,
                   warnings, exit_code, pr, cq, io>>

\* lines 55-56 and TempSocket::new (temp_socket.rs 34-50)
MkTemp ==
    /\ pc = "mktemp"
    /\ \E ok \in BOOLEAN :
          /\ log' = Append(log, Ev("tempdir", ok, "", ""))
          /\ IF ok
             THEN /\ dir' = "exists"
                  /\ sock' = "new"
                  /\ pc' = "master"
                  /\ result' = result
             ELSE /\ dir' = dir
                  /\ sock' = sock
                  /\ pc' = "exit"
                  /\ result' = Err("tempdir", "new", -1, NoText)
    /\ UNCHANGED <<args, create, kc, password, remote_nr, post_nr, warnings, exit_code, pr, cq, io>>

AfterNew_AlwaysProbe == "local_probe"

\* where async_main goes once the session is up (line 109, left operand of ||)
AfterNew == IF args.force_local THEN "login" ELSE "local_probe"

NewFailPc_Leak(s) == "exit"

\* lines 81-88: bail! leaves SshMux::new, which drops the local `socket` if one was made
NewFailPc(s) == IF s = "new" THEN "drop_socket" ELSE "exit"

MasterOk_IgnoreStatus(b) == b.kind = "exit"

\* line 81: output.status.success()
MasterOk(b) == b.kind = "exit" /\ Success(b.status)

\* lines 57-93: the initial ssh, as control master when a socket was made
Master ==
    /\ pc = "master"
    /\ \E b \in PlainBehaviours(RunTexts) :
          /\ log' = Append(log, EvB("ssh_master", b, IF sock = "new" THEN "-xMTS" ELSE "", ""))
          /\ IF MasterOk(b)
             THEN /\ sock' = IF sock = "new" THEN "mux" ELSE "none"
                  /\ pc' = AfterNew
                  /\ result' = result
             ELSE /\ sock' = sock
                  /\ pc' = NewFailPc(sock)
                  /\ result' = IF b.kind = "exit"
                               THEN Err("master", "new", b.status, ErrorText(b.out))
                               ELSE Err("master_spawn", "new", -1, NoText)
    /\ UNCHANGED <<args, create, dir, kc, password, remote_nr, post_nr, warnings,
                   exit_code, pr, cq, io>>

(***************************************************************************)
(* async_main, lines 104-183.  The async block remote_needs_refresh of     *)
(* line 104 is only built there: it runs when it is awaited, at line 127.  *)
(* Returning from async_main (Ok or Err) drops `ssh`: pc "cleanup".        *)
(***************************************************************************)
ProbeErr(who, r) == Err(r.err, who, r.status, r.text)

AfterLocal_SkipRemote(v) == IF v THEN "login" ELSE "kc_get"

\* lines 109-127: the login block when the local credential is stale, else
\* straight on to the remote decision
AfterLocal(v) == IF v THEN "login" ELSE "remote"

\* line 109, right operand: needs_refresh(&args, Command::new)
LocalProbe ==
    /\ pc = "local_probe"
    /\ \E b \in PipedBehaviours :
          LET r == needs_refresh(Helper, b)
          IN  /\ log' = Append(log, EvP("get_local", r, b))
              /\ IF ~r.ok
                 THEN result' = ProbeErr("local", r) /\ pc' = "cleanup"
                 ELSE result' = result /\ pc' = AfterLocal(r.val)
    /\ UNCHANGED <<args, create, sock, dir, kc, password, remote_nr, post_nr,
                   warnings, exit_code, pr, cq, io>>

LoginOk_IgnoreStatus(b) == b.kind = "exit"

\* line 117: status.success()
LoginOk(b) == b.kind = "exit" /\ Success(b.status)

\* what the helper's `login` may have done to its keychain entry: a helper
\* that ran may have stored a fresh password, whatever it then exits with;
\* the program itself writes nothing here
HelperStores(b) == IF b.kind = "spawn_err" THEN {FALSE} ELSE BOOLEAN

\* lines 110-119: `<helper> login <remote>`, its status awaited; a failure to
\* spawn it and a failure of the wait are reported alike
Login ==
    /\ pc = "login"
    /\ \E b \in PlainBehaviours({NoText}) : \E stored \in HelperStores(b) :
          /\ log' = Append(log, EvB("login", b, IF stored THEN "stored" ELSE "", ""))
          /\ kc' = IF stored THEN [kc EXCEPT !["AspectWorkflows"] = "new"] ELSE kc
          /\ IF LoginOk(b)
             THEN /\ result' = result
                  /\ pc' = "kc_get_fresh"
             ELSE /\ result' = IF b.kind = "exit"
                               THEN Err("login", "local", b.status, NoText)
                               ELSE Err("login_spawn", "local", -1, NoText)
                  /\ pc' = "cleanup"
    /\ UNCHANGED <<args, create, sock, dir, password, remote_nr, post_nr,
                   warnings, exit_code, pr, cq, io>>

\* get_credential (lines 225-233): the entry's password, or a failure ("none");
\* a missing entry always fails
get_credential(name) == {NoEntry} \cup ({kc[name]} \ {NoEntry})

set_credential_WrongEntry(k, name, p) == [k EXCEPT !["AspectWorkflows"] = p]

set_credential_Noop(k, name, p) == k

\* set_credential (lines 235-243), when it succeeds
set_credential(k, name, p) == [k EXCEPT ![name] = p]

\* lines 120-122
KcGetFresh ==
    /\ pc = "kc_get_fresh"
    /\ \E p \in get_credential("AspectWorkflows") :
          /\ log' = Append(log, Ev("kc_get", p # NoEntry, "AspectWorkflows", p))
          /\ IF p # NoEntry
             THEN password' = p /\ result' = result /\ pc' = "kc_set_fresh"
             ELSE /\ password' = password
                  /\ result' = Err("kc_get", "local", -1, NoText)
                  /\ pc' = "cleanup"
    /\ UNCHANGED <<args, create, sock, dir, kc, remote_nr, post_nr, warnings, exit_code, pr, cq, io>>

AfterSetFresh_Ignore(ok) == "remote"

\* line 125: `?` on the store of the fresh password
AfterSetFresh(ok) == IF ok THEN "remote" ELSE "cleanup"

\* lines 123-125
KcSetFresh ==
    /\ pc = "kc_set_fresh"
    /\ \E ok \in BOOLEAN :
          /\ log' = Append(log, Ev("kc_set", ok, "aspect-reauth", password))
          /\ IF ok
             THEN /\ kc' = set_credential(kc, "aspect-reauth", password)
                  /\ result' = result
             ELSE /\ kc' = kc
                  /\ result' = Err("kc_set", "local", -1, NoText)
          /\ pc' = AfterSetFresh(ok)
    /\ UNCHANGED <<args, create, sock, dir, password, remote_nr, post_nr,
                   warnings, exit_code, pr, cq, io>>

AfterRemote_AlwaysPush(v) == "kc_get"

\* lines 127-130: return Ok(()) when the remote needs no refresh
AfterRemote(v) == IF v THEN "kc_get" ELSE "cleanup"

\* lines 127-130 with the block of 104-108: force_remote || needs_refresh(ssh.command)
RemoteDecision ==
    /\ pc = "remote"
    /\ IF args.force_remote
       THEN /\ remote_nr' = "true"
            /\ log' = log
            /\ result' = result
            /\ pc' = AfterRemote(TRUE)
       ELSE \E b \in PipedBehaviours :
               LET r == needs_refresh(Helper, b)
               IN  /\ log' = Append(log, WithArgv(EvP("get_remote", r, b),
                                                     command(Session(args, sock), Helper)))
                   /\ IF ~r.ok
                      THEN /\ remote_nr' = remote_nr
                           /\ result' = ProbeErr("remote", r)
                           /\ pc' = "cleanup"
                      ELSE /\ remote_nr' = B2S(r.val)
                           /\ result' = IF r.val THEN result ELSE Ok("not_needed")
                           /\ pc' = AfterRemote(r.val)
    /\ UNCHANGED <<args, create, sock, dir, kc, password, post_nr, warnings, exit_code, pr, cq, io>>

\* lines 132-133
KcGet ==
    /\ pc = "kc_get"
    /\ \E p \in get_credential("aspect-reauth") :
          /\ log' = Append(log, Ev("kc_get", p # NoEntry, "aspect-reauth", p))
          /\ IF p # NoEntry
             THEN password' = p /\ pc' = "keyctl"
             ELSE password' = password /\ pc' = "kc_get_fallback"
    /\ UNCHANGED <<args, create, sock, dir, kc, remote_nr, post_nr, result, warnings,
                   exit_code, pr, cq, io>>

\* lines 134-137
KcGetFallback ==
    /\ pc = "kc_get_fallback"
    /\ \E p \in get_credential("AspectWorkflows") :
          /\ log' = Append(log, Ev("kc_get", p # NoEntry, "AspectWorkflows", p))
          /\ IF p # NoEntry
             THEN password' = p /\ result' = result /\ pc' = "kc_set_sync"
             ELSE /\ password' = password
                  /\ result' = Err("kc_get", "push", -1, NoText)
                  /\ pc' = "cleanup"
    /\ UNCHANGED <<args, create, sock, dir, kc, remote_nr, post_nr, warnings, exit_code, pr, cq, io>>

\* lines 138-142: a failed store is only printed
KcSetSync ==
    /\ pc = "kc_set_sync"
    /\ \E ok \in BOOLEAN :
          /\ log' = Append(log, Ev("kc_set", ok, "aspect-reauth", password))
          /\ kc' = IF ok THEN set_credential(kc, "aspect-reauth", password) ELSE kc
          /\ warnings' = IF ok THEN warnings ELSE Append(warnings, "failed to sync aspect-reauth password")
    /\ pc' = "keyctl"
    /\ UNCHANGED <<args, create, sock, dir, password, remote_nr, post_nr, result,
                   exit_code, pr, cq, io>>

KeyctlOk_IgnoreStatus(b) == b.kind = "exit"

\* line 159: output.status.success()
KeyctlOk(b) == b.kind = "exit" /\ Success(b.status)

\* lines 145-166: `keyctl padd` through the session, the password on its input
Keyctl ==
    /\ pc = "keyctl"
    /\ \E b \in PipedBehaviours :
          /\ log' = Append(log, WithArgv(
                        EvB("keyctl", b, IF sock = "mux" THEN "-S" ELSE "",
                            IF b.kind \in {"wait_err", "exit"} THEN password ELSE NoEntry),
                        command(Session(args, sock), "keyctl")))
          /\ IF KeyctlOk(b)
             THEN result' = result /\ pc' = "post"
             ELSE /\ result' = CASE b.kind = "spawn_err" -> Err("keyctl_spawn", "push", -1, NoText)
                                 [] b.kind = "write_err" -> Err("keyctl_io", "push", -1, NoText)
                                 [] b.kind = "wait_err" -> Err("keyctl_wait", "push", -1, NoText)
                                 [] OTHER -> Err("keyctl", "push", b.status, ErrorText(b.out))
                  /\ pc' = "cleanup"
    /\ UNCHANGED <<args, create, sock, dir, kc, password, remote_nr, post_nr, warnings,
                   exit_code, pr, cq, io>>

AfterPost_Retry(r) == IF r.ok /\ r.val THEN "keyctl" ELSE "cleanup"

\* lines 168-182: every outcome of the check returns from async_main
AfterPost(r) == "cleanup"

\* lines 168-182: the one check after the push
PostProbe ==
    /\ pc = "post"
    /\ \E b \in PipedBehaviours :
          LET r == needs_refresh(Helper, b)
          IN  /\ log' = Append(log, WithArgv(EvP("get_post", r, b),
                                                command(Session(args, sock), Helper)))
              /\ post_nr' = IF r.ok THEN B2S(r.val) ELSE post_nr
              /\ result' = IF ~r.ok THEN ProbeErr("post", r)
                           ELSE IF r.val THEN Err("still_invalid", "post", -1, NoText)
                           ELSE Ok("synced")
              /\ pc' = AfterPost(r)
    /\ UNCHANGED <<args, create, sock, dir, kc, password, remote_nr, warnings, exit_code, pr, cq, io>>

(***************************************************************************)
(* Teardown: Drop for SshMux and cleanup (ssh_mux/mod.rs 116-143), Drop    *)
(* for TempSocket (temp_socket.rs 59-65), and the process exit.            *)
(***************************************************************************)
OwnsSocket_Always(s) == TRUE

\* lines 117-119: `let Some(socket) = self.socket.take() else { return Ok(()) }`
OwnsSocket(s) == s = "mux"

TakeSocket_Keep(s) == s

\* line 117: self.socket.take() leaves None in the session; the socket is now
\* the local of cleanup
TakeSocket(s) == "cleanup"

AfterCleanup_Propagate(res, b) ==
    IF b.kind = "exit" THEN res ELSE Err("cleanup", "drop", -1, NoText)

\* lines 137-141: drop only prints the error of cleanup; the value async_main
\* returned is untouched
AfterCleanup(res, b) == res

\* drop calls cleanup once; cleanup takes the socket and runs
\* `ssh -S sock -Oexit`, whose exit status it ignores.  The taken socket is
\* cleanup's local: it is dropped when cleanup returns, by `?` as well
Cleanup ==
    /\ pc = "cleanup"
    /\ IF ~OwnsSocket(sock)
       THEN /\ log' = Append(log, Ev("cleanup", TRUE, "", ""))
            /\ sock' = sock
            /\ pc' = "exit"
       ELSE \E b \in PlainBehaviours({NoText}) :
               /\ log' = log \o <<Ev("cleanup", b.kind = "exit", "", ""),
                                  EvB("ssh_Oexit", b, "-S", "")>>
               /\ sock' = TakeSocket(sock)
               /\ pc' = "drop_socket"
    /\ UNCHANGED <<args, create, dir, kc, password, remote_nr, post_nr, result, warnings,
                   exit_code, pr, cq, io>>

\* the socket being dropped is the local of a cleanup() that returns Err:
\* its -Oexit, the step just before, could not be run or waited for
CleanupErr ==
    /\ log # <<>>
    /\ log[Len(log)].op = "ssh_Oexit"
    /\ log[Len(log)].kind # "exit"

\* `let _ = remove_dir_all(dir)`: the removal may fail, and nothing reports it.
\* Inside drop's cleanup() it comes before drop sees what cleanup returned
DropTempSocket ==
    /\ pc = "drop_socket"
    /\ \E ok \in BOOLEAN :
          /\ log' = Append(log, Ev("remove_dir", ok, "", ""))
          /\ dir' = IF ok THEN "removed" ELSE dir
    /\ sock' = "dropped"
    /\ pc' = IF CleanupErr THEN "drop_print" ELSE "exit"
    /\ UNCHANGED <<args, create, kc, password, remote_nr, post_nr, result, warnings,
                   exit_code, pr, cq, io>>

\* lines 138-140: cleanup() has returned Err to drop, its socket already
\* dropped; drop prints the error and goes on
DropPrint ==
    /\ pc = "drop_print"
    /\ warnings' = Append(warnings, "cleanup ssh")
    /\ result' = AfterCleanup(result, log[Len(log) - 1])
    /\ pc' = "exit"
    /\ UNCHANGED <<args, create, sock, dir, kc, password, remote_nr, post_nr, log,
                   exit_code, pr, cq, io>>

\* main (lines 85-87): Ok(()) exits 0, an Err exits 1
ExitCode(res) == IF res.kind = "ok" THEN 0 ELSE 1

Exit ==
    /\ pc = "exit"
    /\ exit_code' = ExitCode(result)
    /\ pc' = "done"
    /\ UNCHANGED <<args, create, sock, dir, kc, password, remote_nr, post_nr, log, result,
                   warnings, pr, cq, io>>

Next ==
    \/ ParseArgs
    \/ Resolve
    \/ MkTemp
    \/ Master
    \/ LocalProbe
    \/ Login
    \/ KcGetFresh
    \/ KcSetFresh
    \/ RemoteDecision
    \/ KcGet
    \/ KcGetFallback
    \/ KcSetSync
    \/ Keyctl
    \/ PostProbe
    \/ Cleanup
    \/ DropTempSocket
    \/ DropPrint
    \/ Exit

Spec == Init /\ [][Next]_vars

(***************************************************************************)
(* needs_refresh on its own: every behaviour of the probe subprocess over  *)
(* a larger set of error texts, for two helper names.                      *)
(***************************************************************************)
\* texts built around the login message, each part varied
SlotTexts ==
    { pre \o Chars(w1) \o g1 \o Chars(w2) \o gap \o Chars(h) \o g2 \o Chars(w4) \o post :
        pre \in {NoText, <<"\f", "x", "\n">>},
        w1 \in {"Please", "pLeA<U+017F>E", "displease", "x"},
        g1 \in {NoText, <<" ", "\t">>, <<"\n">>, <<"\f">>},
        w2 \in {"run", "Run"},
        gap \in {NoText, <<"\n", "x", "\n">>, <<" ", BadByte, " ">>},
        h \in {"helper", "thehelper", "OTHER"},
        g2 \in {NoText, <<"\n">>, <<"<U+00A0>">>},
        w4 \in {"LOGIN", "logout", "loginx"},
        post \in {NoText, <<" ", "x", "<U+0085>">>} }

\* every text of at most n pieces, and the texts around the login message
ProbeTexts(n) == {Flatten(ts) : ts \in SeqsUpTo(Tokens, n)} \cup SlotTexts

ProbeHelpers == {"helper", "other"}

ProbeBehaviours(n) == {SpawnErr, WriteErr, WaitErr} \cup Exited(Statuses, ProbeTexts(n))

InitProbe ==
    /\ pc = "idle"
    /\ args = DefaultArgs
    /\ create = "unset"
    /\ sock = "none"
    /\ dir = "none"
    /\ kc = [n \in KcNames |-> NoEntry]
    /\ password = NoEntry
    /\ remote_nr = "unset"
    /\ post_nr = "unset"
    /\ log = <<>>
    /\ result = Running
    /\ warnings = <<>>
    /\ exit_code = -1
    /\ pr \in [phase : {"spawned"}, helper : ProbeHelpers, b : ProbeBehaviours(MaxTokens),
               r : {NrOk(FALSE)}]
    /\ cq = CqIdle
    /\ io = IoIdle

\* the probe's subprocess has behaved as pr.b: needs_refresh returns
ProbeReturn ==
    /\ pr.phase = "spawned"
    /\ pr' = [pr EXCEPT !.phase = "returned", !.r = needs_refresh(pr.helper, pr.b)]
    /\ UNCHANGED <<runVars, cq, io>>

NextProbe == ProbeReturn

SpecProbe == InitProbe /\ [][NextProbe]_vars

(***************************************************************************)
(* infer_create_socket on its own: every behaviour of `ssh -G -- host`     *)
(* over all outputs of at most MaxCfgTokens tokens.                        *)
(***************************************************************************)
CfgTokens == {"controlmaster auto", "controlmaster no", " ", "\n", "\r", BadByte}

CfgBehaviours(n) == PlainBehaviours(SeqsUpTo(CfgTokens, n))

InitInfer ==
    /\ pc = "idle"
    /\ args = DefaultArgs
    /\ create = "unset"
    /\ sock = "none"
    /\ dir = "none"
    /\ kc = [n \in KcNames |-> NoEntry]
    /\ password = NoEntry
    /\ remote_nr = "unset"
    /\ post_nr = "unset"
    /\ log = <<>>
    /\ result = Running
    /\ warnings = <<>>
    /\ exit_code = -1
    /\ pr = PrIdle
    /\ cq \in [phase : {"asked"}, b : CfgBehaviours(MaxCfgTokens), flag : {"unset"}]
    /\ io = IoIdle

\* `ssh -G` has behaved as cq.b: infer_create_socket returns
InferReturn ==
    /\ cq.phase = "asked"
    /\ cq' = [cq EXCEPT !.phase = "resolved", !.flag = B2S(infer_create_socket(cq.b))]
    /\ UNCHANGED <<runVars, pr, io>>

NextInfer == InferReturn

SpecInfer == InitInfer /\ [][NextInfer]_vars

(***************************************************************************)
(* SshMux::cleanup called by the holder of a session, any number of times  *)
(* up to MaxCalls, before the session is dropped.                          *)
(***************************************************************************)
InitCleanup ==
    /\ pc = "active"
    /\ args \in {a \in RawArgs : ~a.force /\ ~a.force_local /\ ~a.force_remote
                                  /\ ~a.no_create_socket /\ a.create_socket # "Infer"}
    /\ create = IF args.create_socket = "True" THEN "true" ELSE "false"
    /\ sock = IF create = "true" THEN "mux" ELSE "none"
    /\ dir = IF create = "true" THEN "exists" ELSE "none"
    /\ kc = [n \in KcNames |-> NoEntry]
    /\ password = NoEntry
    /\ remote_nr = "unset"
    /\ post_nr = "unset"
    /\ log = IF create = "true"
             THEN <<Ev("tempdir", TRUE, "", ""), EvB("ssh_master", Beh("exit", 0, NoText), "-xMTS", "")>>
             ELSE <<EvB("ssh_master", Beh("exit", 0, NoText), "", "")>>
    /\ result = Running
    /\ warnings = <<>>
    /\ exit_code = -1
    /\ pr = PrIdle
    /\ cq = CqIdle
    /\ io = IoIdle

\* the socket leaves cleanup's scope, on return and on `?` alike
DropLocal(s) == IF s = "cleanup" THEN "dropped" ELSE s

\* one call of cleanup() (lines 116-132), with the drop of the taken socket
\* (temp_socket.rs 59-65) when it returns
CleanupCall ==
    /\ pc = "active"
    /\ Cardinality({i \in DOMAIN log : log[i].op = "cleanup"}) < MaxCalls
    /\ IF ~OwnsSocket(sock)
       THEN /\ log' = Append(log, Ev("cleanup", TRUE, "", ""))
            /\ sock' = sock
            /\ dir' = dir
       ELSE \E b \in PlainBehaviours({NoText}), ok \in BOOLEAN :
               /\ log' = log \o <<Ev("cleanup", b.kind = "exit", "", ""),
                                  EvB("ssh_Oexit", b, "-S", ""),
                                  Ev("remove_dir", ok, "", "")>>
               /\ sock' = DropLocal(TakeSocket(sock))
               /\ dir' = IF ok THEN "removed" ELSE dir
    /\ UNCHANGED <<pc, args, create, kc, password, remote_nr, post_nr, result, warnings,
                   exit_code, pr, cq, io>>

\* the holder is done with the session: it goes out of scope (Drop, lines 135-143)
SessionDrop ==
    /\ pc = "active"
    /\ pc' = "cleanup"
    /\ result' = Ok("synced")
    /\ UNCHANGED <<args, create, sock, dir, kc, password, remote_nr, post_nr, log,
                   warnings, exit_code, pr, cq, io>>

NextCleanup ==
    \/ CleanupCall
    \/ SessionDrop
    \/ Cleanup
    \/ DropTempSocket
    \/ DropPrint
    \/ Exit

SpecCleanup == InitCleanup /\ [][NextCleanup]_vars

(***************************************************************************)
(* One subprocess with piped input and piped error output (needs_refresh,  *)
(* main.rs 186-205, and the keyctl push, 147-158), byte by byte.  The      *)
(* parent writes the whole payload (write_all), closes the input, and only *)
(* then reads the error output (child.output()).  The child is any program *)
(* made of the steps "err" (write its diagnostics) and "read" (read its    *)
(* input to end of file).                                                  *)
(***************************************************************************)
Min(a, b) == IF a <= b THEN a ELSE b

ChildPrograms == {<<"read", "err">>, <<"err", "read">>, <<"err">>}

InitPipe ==
    /\ pc = "idle"
    /\ args = DefaultArgs
    /\ create = "unset"
    /\ sock = "none"
    /\ dir = "none"
    /\ kc = [n \in KcNames |-> NoEntry]
    /\ password = NoEntry
    /\ remote_nr = "unset"
    /\ post_nr = "unset"
    /\ log = <<>>
    /\ result = Running
    /\ warnings = <<>>
    /\ exit_code = -1
    /\ pr = PrIdle
    /\ cq = CqIdle
    /\ io \in [phase : {"run"}, cap : 1..MaxCap, left : 0..MaxPayload, wopen : {TRUE},
                inp : {0}, err : {0}, ppc : {"write"}, csteps : ChildPrograms,
                cerr : 0..MaxErr]

\* the child lives: its ends of the pipes are open
ChildAlive == io.csteps # <<>>

\* stdin.write_all(..).await, one write: as many bytes as the pipe takes
ParentWrite ==
    /\ io.phase = "run" /\ io.ppc = "write"
    /\ io.left > 0 /\ io.inp < io.cap /\ ChildAlive
    /\ LET k == Min(io.left, io.cap - io.inp)
       IN  io' = [io EXCEPT !.left = @ - k, !.inp = @ + k]
    /\ UNCHANGED <<runVars, pr, cq>>

\* write_all fails (`?`): the child has gone, nobody reads the pipe
ParentWriteFails ==
    /\ io.phase = "run" /\ io.ppc = "write"
    /\ io.left > 0 /\ ~ChildAlive
    /\ io' = [io EXCEPT !.ppc = "failed", !.wopen = FALSE]
    /\ UNCHANGED <<runVars, pr, cq>>

\* write_all has returned: drop(stdin), then child.output() is awaited
ParentCloseStdin ==
    /\ io.phase = "run" /\ io.ppc = "write"
    /\ io.left = 0
    /\ io' = [io EXCEPT !.ppc = "drain", !.wopen = FALSE]
    /\ UNCHANGED <<runVars, pr, cq>>

\* child.output(): read what the error pipe holds
ParentDrain ==
    /\ io.phase = "run" /\ io.ppc = "drain"
    /\ io.err > 0
    /\ io' = [io EXCEPT !.err = 0]
    /\ UNCHANGED <<runVars, pr, cq>>

\* child.output() returns: end of the error output and the exit status
ParentReap ==
    /\ io.phase = "run" /\ io.ppc = "drain"
    /\ io.err = 0 /\ ~ChildAlive
    /\ io' = [io EXCEPT !.ppc = "done"]
    /\ UNCHANGED <<runVars, pr, cq>>

\* the child writes some of its diagnostics, if the error pipe has room
ChildWriteErr ==
    /\ io.phase = "run" /\ ChildAlive /\ Head(io.csteps) = "err"
    /\ io.cerr > 0 /\ io.err < io.cap
    /\ \E k \in 1..Min(io.cerr, io.cap - io.err) :
          io' = [io EXCEPT !.cerr = @ - k, !.err = @ + k]
    /\ UNCHANGED <<runVars, pr, cq>>

\* the child reads some of its input
ChildRead ==
    /\ io.phase = "run" /\ ChildAlive /\ Head(io.csteps) = "read"
    /\ io.inp > 0
    /\ \E k \in 1..io.inp : io' = [io EXCEPT !.inp = @ - k]
    /\ UNCHANGED <<runVars, pr, cq>>

\* the child ends a step: all diagnostics written, or end of file on its input;
\* after the last step it exits
ChildStepDone ==
    /\ io.phase = "run" /\ ChildAlive
    /\ \/ Head(io.csteps) = "err" /\ io.cerr = 0
       \/ Head(io.csteps) = "read" /\ io.inp = 0 /\ ~io.wopen
    /\ io' = [io EXCEPT !.csteps = Tail(@)]
    /\ UNCHANGED <<runVars, pr, cq>>

NextPipe ==
    \/ ParentWrite
    \/ ParentWriteFails
    \/ ParentCloseStdin
    \/ ParentDrain
    \/ ParentReap
    \/ ChildWriteErr
    \/ ChildRead
    \/ ChildStepDone

SpecPipe == InitPipe /\ [][NextPipe]_vars

(***************************************************************************)
(* Reading the history.                                                    *)
(***************************************************************************)
Events(op) == {i \in DOMAIN log : log[i].op = op}

Count(op) == Cardinality(Events(op))

Done == pc = "done"

\* SshMux::new returned Ok
SessionBuilt == \E i \in Events("ssh_master") : log[i].ok

\* the session was built with a private control socket
SessionOwnsSocket == \E i \in Events("ssh_master") : log[i].ok /\ log[i].name = "-xMTS"

KeychainAllOk == \A i \in Events("kc_get") \cup Events("kc_set") : log[i].ok

TeardownPcs == {"cleanup", "drop_socket", "drop_print", "exit"}

(***************************************************************************)
(* C1.  As claimed: once the process has exited, no control-socket         *)
(* temporary directory made by the run is left on disk.                    *)
(***************************************************************************)
C1_NoDirAfterExit == Done => dir # "exists"

\* C1, amended: once the process has exited, the removal of the directory the
\* run made has been attempted exactly once, on every path, and the directory
\* is still on disk only if that removal itself failed.
C1_DirRemovalAttemptedOnce ==
    Done =>
        /\ dir = "none" => Count("remove_dir") = 0
        /\ dir # "none" =>
              /\ Count("remove_dir") = 1
              /\ \A i \in Events("remove_dir") : log[i].ok <=> dir = "removed"
              /\ sock = "dropped"

\* a run that failed in SshMux::new after the directory was made, and removed it
C1_Witness ==
    Done /\ dir = "removed" /\ result.kind = "err" /\ result.msg = "master"

(***************************************************************************)
(* C2.  When the session was built, cleanup runs exactly once on every     *)
(* exit path: one `ssh -S sock -Oexit` when the session owns a private     *)
(* socket, none when it does not.                                          *)
(***************************************************************************)
C2_CleanupExactlyOnce ==
    /\ Count("cleanup") <= 1
    /\ Count("ssh_Oexit") <= 1
    /\ (Done /\ SessionBuilt) =>
          /\ Count("cleanup") = 1
          /\ Count("ssh_Oexit") = IF SessionOwnsSocket THEN 1 ELSE 0

\* an error path (the push failed) of a session that owns its socket
C2_Witness ==
    Done /\ SessionOwnsSocket /\ result.msg = "keyctl" /\ Count("ssh_Oexit") = 1

(***************************************************************************)
(* C3.  As claimed: a teardown failure (of the -Oexit invocation or of the *)
(* removal of the socket directory) never changes the run's result: from   *)
(* the moment async_main has returned no teardown step changes the result, *)
(* and the exit status is the one of that result; and the teardown failure *)
(* is logged as a warning.                                                 *)
(***************************************************************************)
\* no teardown step changes the result, whether the step fails or not; the
\* only line a teardown step may print is drop's warning
TeardownKeepsResult ==
    (pc \in TeardownPcs) =>
        /\ result' = result
        /\ pc' = "done" => exit_code' = ExitCode(result)
        /\ \/ warnings' = warnings
           \/ warnings' = Append(warnings, "cleanup ssh")

\* the session's -Oexit could not be run, or did not exit 0
OexitFailed == \E i \in Events("ssh_Oexit") : ~log[i].ok

\* the removal of the directory at the end of cleanup() failed
RemovalFailed ==
    \E i \in Events("remove_dir") : ~log[i].ok /\ \E c \in Events("cleanup") : c < i

\* the session's -Oexit could not be spawned or waited for: cleanup() returned Err
OexitNotRun == \E i \in Events("ssh_Oexit") : log[i].kind # "exit"

CleanupWarned == \E w \in DOMAIN warnings : warnings[w] = "cleanup ssh"

C3_TeardownFailureLogged ==
    /\ [][TeardownKeepsResult]_vars
    /\ [](Done => ((OexitFailed \/ RemovalFailed) => CleanupWarned))

\* C3, amended: a teardown failure never changes the run's result nor its
\* exit status.  Only a -Oexit that could not be spawned or waited for is
\* logged, as one warning line, printed after the directory's removal was
\* attempted; a -Oexit that exits non-zero and a failed removal of the
\* directory are not reported at all.
C3_TeardownKeepsResult ==
    /\ [][TeardownKeepsResult]_vars
    /\ [](Done => (CleanupWarned <=> OexitNotRun))
    /\ [][warnings' # warnings /\ pc \in TeardownPcs => Count("remove_dir") = 1]_vars

\* a successful run whose -Oexit exited non-zero and whose directory removal
\* failed: the result stands and nothing was printed
C3_Witness ==
    /\ Done
    /\ result = Ok("synced")
    /\ exit_code = 0
    /\ \E i \in Events("ssh_Oexit") : log[i].kind = "exit" /\ log[i].status = 255
    /\ RemovalFailed
    /\ dir = "exists"
    /\ warnings = <<>>

(***************************************************************************)
(* C4.  When the remote freshness decision is false, the run ends with     *)
(* "refresh not needed" and exit status 0, and neither `keyctl padd` nor   *)
(* the post-push probe is ever spawned, whatever the local path did.       *)
(***************************************************************************)
C4_RemoteFreshMeansNoPush ==
    remote_nr = "false" =>
        /\ result = Ok("not_needed")
        /\ Count("keyctl") = 0
        /\ Count("get_post") = 0
        /\ Done => exit_code = 0

\* the remote was fresh although a local login ran
C4_Witness ==
    Done /\ remote_nr = "false" /\ (\E i \in Events("login") : log[i].ok)

(***************************************************************************)
(* C5.  As claimed: when the local "get" probe asks for a login, the login *)
(* exits 0, the keychain returns a credential c and `keyctl padd` exits 0, *)
(* then the login ran, keyctl received exactly c and the run ends with the *)
(* success message and exit status 0.                                      *)
(***************************************************************************)
LocalAskedLogin == \E i \in Events("get_local") : log[i].ok /\ log[i].val = "true"

LoginSucceeded == \E i \in Events("login") : log[i].ok

PushSucceeded == \E i \in Events("keyctl") : log[i].ok

\* keyctl's input is the credential the keychain returned after the login
PushedFetchedCredential ==
    \A j \in Events("keyctl") :
        \E i \in Events("kc_get") :
            /\ log[i].name = "AspectWorkflows"
            /\ i < j
            /\ \E l \in Events("login") : l < i
            /\ log[j].val = log[i].val
            /\ log[j].val \in Creds

C5_LoginPushSucceeds ==
    (Done /\ LocalAskedLogin /\ LoginSucceeded /\ KeychainAllOk /\ PushSucceeded) =>
        /\ PushedFetchedCredential
        /\ result = Ok("synced")
        /\ exit_code = 0

\* C5, amended: the same, provided also that the one probe after the push exits 0.
C5_LoginPushSucceedsIfPostProbeFresh ==
    (/\ Done /\ LocalAskedLogin /\ LoginSucceeded /\ KeychainAllOk /\ PushSucceeded
     /\ \E i \in Events("get_post") : log[i].ok /\ log[i].val = "false") =>
        /\ PushedFetchedCredential
        /\ result = Ok("synced")
        /\ exit_code = 0

\* such a run, from a keychain that held an older password
C5_Witness ==
    /\ Done /\ LocalAskedLogin /\ LoginSucceeded /\ KeychainAllOk /\ PushSucceeded
    /\ result = Ok("synced")
    /\ \E j \in Events("keyctl") : log[j].val = "new"
    /\ \E i \in Events("kc_get") : log[i].name = "aspect-reauth"

(***************************************************************************)
(* C6.  As claimed: when `keyctl padd` exits non-zero the run is fatal,    *)
(* the message carries the captured remote error text, no post-push probe  *)
(* runs, no success is reported, and the session is torn down with the     *)
(* control-socket directory removed.                                       *)
(***************************************************************************)
PushExitedNonZero(i) == log[i].op = "keyctl" /\ log[i].kind = "exit" /\ ~Success(log[i].status)

PushFailureIsFatal(i) ==
    /\ result = Err("keyctl", "push", log[i].status, ErrorText(log[i].text))
    /\ Count("get_post") = 0
    /\ Done => exit_code = 1 /\ Count("cleanup") = 1

C6_PushFailureFatalDirRemoved ==
    \A i \in DOMAIN log : PushExitedNonZero(i) =>
        /\ PushFailureIsFatal(i)
        /\ Done => dir # "exists"

\* C6, amended: the same, except that the teardown removes the directory only
\* if the removal itself succeeds: with a private socket the one -Oexit is
\* issued and the removal attempted once.
C6_PushFailureFatalTeardownAttempted ==
    \A i \in DOMAIN log : PushExitedNonZero(i) =>
        /\ PushFailureIsFatal(i)
        /\ (Done /\ SessionOwnsSocket) =>
              /\ Count("ssh_Oexit") = 1
              /\ Count("remove_dir") = 1
              /\ \A k \in Events("remove_dir") : log[k].ok <=> dir = "removed"

\* "permission denied" from the remote, the directory removed afterwards
C6_Witness ==
    /\ Done /\ dir = "removed"
    /\ \E i \in DOMAIN log : PushExitedNonZero(i) /\ log[i].text = <<"x", "\n">>
    /\ result.text = <<"x">>

(***************************************************************************)
(* C7.  At most one `keyctl padd` and at most one post-push probe in a     *)
(* run, no push after that probe, and a probe that still reports "needs    *)
(* refresh" ends the run with the "still invalid, rerun with --force"      *)
(* error.                                                                  *)
(***************************************************************************)
C7_SinglePushSingleRecheck ==
    /\ Count("keyctl") <= 1
    /\ Count("get_post") <= 1
    /\ \A i \in Events("get_post") : \A j \in Events("keyctl") : j < i
    /\ post_nr = "true" =>
          /\ result = Err("still_invalid", "post", -1, NoText)
          /\ pc \in TeardownPcs \cup {"done"}
          /\ Done => exit_code = 1

C7_Witness == Done /\ post_nr = "true" /\ Count("keyctl") = 1 /\ Count("get_post") = 1

(***************************************************************************)
(* C8.  When the local path fails (the local probe fails, or the login     *)
(* does), the run is fatal and reports the local error, whatever the       *)
(* remote would say; after a failed login no credential is read from or    *)
(* written to the keychain, and nothing is pushed.                         *)
(***************************************************************************)
LocalProbeFailed == \E i \in Events("get_local") : ~log[i].ok

LoginFailed == \E i \in Events("login") : ~log[i].ok

C8_LocalFailureFirst ==
    /\ (LocalProbeFailed \/ LoginFailed) =>
          /\ result.kind = "err"
          /\ result.who = "local"
          /\ Count("keyctl") = 0
          /\ Count("get_post") = 0
          /\ Done => exit_code = 1
    /\ LocalProbeFailed => result.msg \in {"probe", "probe_spawn", "probe_io", "probe_wait"}
    /\ LoginFailed =>
          /\ result.msg \in {"login", "login_spawn"}
          /\ Count("kc_get") = 0
          /\ Count("kc_set") = 0

\* a forced login that exited non-zero
C8_Witness ==
    Done /\ result.msg = "login" /\ result.status = 255 /\ Count("get_local") = 0

(***************************************************************************)
(* C9.  needs_refresh is decided by the probe's exit status and error text *)
(* alone: false on exit 0 whatever the error text; true on a non-zero exit *)
(* whose error text says "please run ... <helper> login", in any letter    *)
(* case and across lines; otherwise an error carrying the status and the   *)
(* (trimmed) error text, never "needs login".                              *)
(***************************************************************************)
\* the characters of t from position i on spell the word w, letter case aside
SpellsAt(t, i, w) ==
    /\ i + Len(w) - 1 <= Len(t)
    /\ \A k \in 1..Len(w) : Fold(t[i + k - 1]) = Fold(w[k])

AllSpace(t, from, to) == \A k \in from..to : IsSpace(t[k])

\* the text says, anywhere in it: please, white space, run, any characters,
\* the helper's name, white space, login; a byte that is no character is
\* not among "any characters"
AsksForLogin(helper, t) ==
    LET please == Chars("please")
        run    == Chars("run")
        name   == Chars(helper)
        login  == Chars("login")
    IN  \E i \in 1..Len(t) :
          /\ SpellsAt(t, i, please)
          /\ \E j \in (i + Len(please) + 1)..Len(t) :
                /\ AllSpace(t, i + Len(please), j - 1)
                /\ SpellsAt(t, j, run)
                /\ \E m \in (j + Len(run))..Len(t) :
                      /\ \A k \in (j + Len(run))..(m - 1) : t[k] # BadByte
                      /\ SpellsAt(t, m, name)
                      /\ \E n \in (m + Len(name) + 1)..Len(t) :
                            /\ AllSpace(t, m + Len(name), n - 1)
                            /\ SpellsAt(t, n, login)

\* e is the text s as the error reports it: decoded, bytes that are no
\* character shown as U+FFFD, without the white space around it
IsReportOf(e, s) ==
    \E a \in 0..Len(s) : \E z \in a..Len(s) :
        /\ AllSpace(s, 1, a)
        /\ AllSpace(s, z + 1, Len(s))
        /\ Len(e) = z - a
        /\ \A k \in 1..Len(e) :
              e[k] = IF s[a + k] = BadByte THEN Replacement ELSE s[a + k]
        /\ e # <<>> => (~IsSpace(e[1]) /\ ~IsSpace(e[Len(e)]))

C9_NeedsRefreshDecision ==
    (pr.phase = "returned" /\ pr.b.kind = "exit") =>
        IF Success(pr.b.status) THEN pr.r = NrOk(FALSE)
        ELSE IF AsksForLogin(pr.helper, pr.b.out) THEN pr.r = NrOk(TRUE)
        ELSE /\ ~pr.r.ok
             /\ pr.r.err = "probe"
             /\ pr.r.status = pr.b.status
             /\ IsReportOf(pr.r.text, pr.b.out)

\* a login message in mixed letter case, spread over several lines, after
\* another line and inside longer words
C9_Witness ==
    /\ pr.phase = "returned"
    /\ pr.b = Beh("exit", 1, <<"\f", "x", "\n">> \o Chars("displease") \o <<"\f">>
                              \o Chars("Run") \o <<"\n", "x", "\n">> \o Chars("thehelper")
                              \o <<"<U+00A0>">> \o Chars("loginx") \o <<" ", "x", "<U+0085>">>)
    /\ pr.r = NrOk(TRUE)

(***************************************************************************)
(* C10.  As claimed: with policy Infer, when the configuration query fails *)
(* (ssh -G cannot be run, exits non-zero, or prints undecodable output)    *)
(* the resolved flag is true and a private control socket is made.         *)
(***************************************************************************)
QueryFailed ==
    \E i \in Events("ssh_G") :
        \/ log[i].kind # "exit"
        \/ ~Success(log[i].status)
        \/ ~ValidUtf8(log[i].text)

C10_QueryFailureCreatesSocket ==
    QueryFailed => create = "true"

\* C10, amended: with policy Infer and a failing configuration query the
\* resolved flag is false: no private control socket is made, and the
\* session runs without one.
C10_QueryFailureReusesSocket ==
    QueryFailed =>
        /\ create = "false"
        /\ Count("tempdir") = 0
        /\ dir = "none"
        /\ \A i \in Events("ssh_master") : log[i].name = ""

\* undecodable output of a query that exited 0, and the session was built
C10_Witness ==
    /\ SessionBuilt
    /\ \E i \in Events("ssh_G") : log[i].ok /\ ~ValidUtf8(log[i].text)

(***************************************************************************)
(* C11.  With policy Infer and a configuration query that succeeds (exit   *)
(* 0, decodable output), the resolved flag is false if and only if some    *)
(* line of the output is exactly `controlmaster auto`; it is true for      *)
(* every other configuration.                                              *)
(***************************************************************************)
\* some line of t is the one token "controlmaster auto": the token stands at
\* the start of the text or after a newline, and at the end of the text or
\* before a line ending, "\n" or "\r\n"
HasControlMasterAutoLine(t) ==
    \E i \in 1..Len(t) :
        /\ t[i] = "controlmaster auto"
        /\ (i = 1 \/ t[i - 1] = "\n")
        /\ \/ i = Len(t)
           \/ t[i + 1] = "\n"
           \/ (i + 2 <= Len(t) /\ t[i + 1] = "\r" /\ t[i + 2] = "\n")

QuerySucceeded(b) == b.kind = "exit" /\ Success(b.status) /\ ValidUtf8(b.out)

C11_InferFollowsControlMasterAuto ==
    (cq.phase = "resolved" /\ QuerySucceeded(cq.b)) =>
        (cq.flag = "false" <=> HasControlMasterAutoLine(cq.b.out))

\* a configuration whose only mention of the option is indented: a socket is made
C11_Witness ==
    /\ cq.phase = "resolved"
    /\ cq.b = Beh("exit", 0, <<"controlmaster no", "\n", " ", "controlmaster auto">>)
    /\ cq.flag = "true"

(***************************************************************************)
(* C12.  For an explicit policy (CreateSocket::Specify(b)) the resolved    *)
(* flag is b, the configuration query is never run, and a session that is  *)
(* built owns a private socket exactly when b is true; --no-create-socket  *)
(* resolves to Specify(false).                                             *)
(***************************************************************************)
Parsed == pc # "parse"

Resolved == pc \notin {"parse", "resolve"}

C12_ExplicitPolicyDecides ==
    /\ (Parsed /\ args.no_create_socket) => args.create_socket = "False"
    /\ (Parsed /\ args.create_socket # "Infer") => Count("ssh_G") = 0
    /\ (Resolved /\ args.create_socket # "Infer") =>
          /\ create = "true" <=> args.create_socket = "True"
          /\ create = "false" <=> args.create_socket = "False"
          /\ SessionBuilt => (SessionOwnsSocket <=> args.create_socket = "True")

\* --no-create-socket: the session is built on the user's own socket, unasked
C12_Witness ==
    /\ Done
    /\ args.no_create_socket
    /\ SessionBuilt
    /\ ~SessionOwnsSocket
    /\ Count("ssh_G") = 0

(***************************************************************************)
(* C13.  cleanup() is idempotent: over any sequence of calls (those of the *)
(* holder and the one of drop) at most one `ssh -O exit` is spawned, every *)
(* call after the first returns Ok and does nothing (no subprocess, no     *)
(* removal), whether or not the first call failed, and once a call has     *)
(* been made the session holds no socket.                                  *)
(***************************************************************************)
FirstCleanup == CHOOSE i \in Events("cleanup") : \A j \in Events("cleanup") : i <= j

\* the cleanup call that event j belongs to: the last one begun before it
CallOf(j) == CHOOSE i \in Events("cleanup") :
                 i < j /\ \A k \in Events("cleanup") : k < j => k <= i

C13_CleanupIdempotent ==
    /\ Count("ssh_Oexit") <= 1
    /\ Count("remove_dir") <= 1
    /\ \A i \in Events("cleanup") : i # FirstCleanup => log[i].ok
    /\ \A j \in Events("ssh_Oexit") \cup Events("remove_dir") :
          /\ \E i \in Events("cleanup") : i < j
          /\ CallOf(j) = FirstCleanup
    /\ Count("cleanup") >= 1 => sock # "mux"
    /\ Done => sock \in {"none", "dropped"}

\* three calls and the drop, after a first call that could not run ssh
C13_Witness ==
    /\ Done
    /\ Count("cleanup") = MaxCalls + 1
    /\ ~log[FirstCleanup].ok
    /\ Count("ssh_Oexit") = 1
    /\ sock = "dropped"

(***************************************************************************)
(* C14.  The force flags bypass the freshness probes.  With --force-local  *)
(* the local probe is never spawned and, once the session is up, the login *)
(* runs; with --force-remote no probe precedes the push, and the push is   *)
(* spawned in every run whose local path and keychain read succeed;        *)
(* --force sets both.                                                      *)
(***************************************************************************)
C14_ForceBypassesProbes ==
    /\ (Parsed /\ args.force) => (args.force_local /\ args.force_remote)
    /\ (Parsed /\ args.force_local) =>
          /\ Count("get_local") = 0
          /\ SessionBuilt => (pc = "login" \/ Count("login") = 1)
    /\ (Parsed /\ args.force_remote) =>
          /\ Count("get_remote") = 0
          /\ (Done /\ SessionBuilt /\ result.who # "local") =>
                \/ Count("keyctl") = 1
                \/ result = Err("kc_get", "push", -1, NoText)

\* a --force run: login and push with no probe before either
C14_Witness ==
    /\ Done
    /\ args.force
    /\ Count("get_local") = 0
    /\ Count("get_remote") = 0
    /\ Count("login") = 1
    /\ Count("keyctl") = 1
    /\ Count("get_post") = 1
    /\ result = Ok("synced")

(***************************************************************************)
(* C15.  As claimed: for every payload size and pipe capacity, a piped     *)
(* subprocess never reaches a state in which the parent is blocked writing *)
(* the child's input while the child is blocked writing to a full error    *)
(* pipe that nobody drains.                                                *)
(***************************************************************************)
ParentBlockedWriting ==
    /\ io.phase = "run" /\ io.ppc = "write"
    /\ io.left > 0 /\ io.inp = io.cap /\ ChildAlive

ChildBlockedOnErr ==
    /\ io.phase = "run" /\ ChildAlive /\ Head(io.csteps) = "err"
    /\ io.cerr > 0 /\ io.err = io.cap

C15_NoMutualPipeBlock == ~(ParentBlockedWriting /\ ChildBlockedOnErr)

(***************************************************************************)
(* C16.  As claimed: the local path (probe, login, keychain update) and    *)
(* the remote probe run concurrently: while the local path is unfinished   *)
(* and --force-remote is not given, the remote probe is already running or *)
(* can be spawned at once, without waiting for the local path.             *)
(***************************************************************************)
LocalPathPcs == {"local_probe", "login", "kc_get_fresh", "kc_set_fresh"}

LocalPathUnfinished == pc \in LocalPathPcs

RemoteProbeSpawned == Count("get_remote") > 0

C16_RemoteProbeConcurrent ==
    (LocalPathUnfinished /\ ~args.force_remote) =>
        (RemoteProbeSpawned \/ ENABLED RemoteDecision)

\* C16, what the program does instead: the block of lines 104-108 is a future
\* that nothing polls before line 127, so the remote probe is spawned only
\* when the local path is over, and is never spawned if the local path failed.
C16_RemoteProbeAfterLocalPath ==
    /\ RemoteProbeSpawned => ~LocalPathUnfinished
    /\ (LocalProbeFailed \/ LoginFailed) => ~RemoteProbeSpawned

(***************************************************************************)
(* C17.  As claimed: no keychain read and no `keyctl padd` spawn happens   *)
(* before both the local and the remote freshness decision are known.      *)
(***************************************************************************)
\* the decision is known from the flag, or from a probe that returned Ok
LocalKnownBefore(i) ==
    args.force_local \/ \E j \in Events("get_local") : j < i /\ log[j].ok

RemoteKnownBefore(i) ==
    args.force_remote \/ \E j \in Events("get_remote") : j < i /\ log[j].ok

C17_NoKeychainBeforeDecisions ==
    \A i \in Events("kc_get") \cup Events("keyctl") :
        LocalKnownBefore(i) /\ RemoteKnownBefore(i)

\* the read of lines 120-122: the helper's entry, right after a successful login
LoginPathRead(i) ==
    /\ log[i].op = "kc_get"
    /\ log[i].name = "AspectWorkflows"
    /\ i > 1
    /\ log[i - 1].op = "login"
    /\ log[i - 1].kind = "exit" /\ log[i - 1].status = 0

\* C17, amended: `keyctl padd` is spawned, and the credential it pushes is
\* read, only after both decisions are known.  The one keychain read that
\* can come earlier is the login path's: after a successful login, with the
\* local decision known, the helper's fresh entry is read (and stored for
\* aspect-reauth) before the remote decision is evaluated.
C17_PushOnlyAfterDecisions ==
    /\ \A i \in Events("keyctl") : LocalKnownBefore(i) /\ RemoteKnownBefore(i)
    /\ \A i \in Events("kc_get") :
          /\ LocalKnownBefore(i)
          /\ RemoteKnownBefore(i) \/ LoginPathRead(i)
    /\ \A i \in Events("kc_set") : LocalKnownBefore(i)

\* a run that logged in, read the keychain, and only then asked the remote
C17_Witness ==
    /\ Done
    /\ \E i \in Events("kc_get") : LoginPathRead(i) /\ ~RemoteKnownBefore(i)
    /\ Count("get_remote") = 1
    /\ Count("keyctl") = 1

(***************************************************************************)
(* C18.  As claimed: every remote command of a run (remote probe, push,    *)
(* probe after the push) is spawned only after SshMux::new returned Ok and *)
(* has completed before the teardown of the session begins; and if the     *)
(* initial ssh exits non-zero, the run fails with its status and captured  *)
(* error text, and no remote command, helper subprocess or keychain access *)
(* ever happens.                                                           *)
(***************************************************************************)
RemoteCommandEvents == Events("get_remote") \cup Events("keyctl") \cup Events("get_post")

TeardownEvents == Events("cleanup") \cup Events("ssh_Oexit") \cup Events("remove_dir")

\* command i was issued on a session that was up and not yet being torn down
InsideSession(i) ==
    /\ \E j \in Events("ssh_master") : j < i /\ log[j].ok
    /\ \A k \in TeardownEvents : i < k

MasterFailureIsFatal ==
    \A i \in Events("ssh_master") :
        (log[i].kind = "exit" /\ ~Success(log[i].status)) =>
            /\ result = Err("master", "new", log[i].status, ErrorText(log[i].text))
            /\ RemoteCommandEvents = {}
            /\ Count("get_local") = 0 /\ Count("login") = 0
            /\ Count("kc_get") = 0 /\ Count("kc_set") = 0
            /\ Count("cleanup") = 0 /\ Count("ssh_Oexit") = 0
            /\ Done => exit_code = 1

C18_RemoteCommandsCompleteBeforeTeardown ==
    /\ \A i \in RemoteCommandEvents : InsideSession(i)
    /\ pc \in TeardownPcs \cup {"done"} =>
          \A i \in RemoteCommandEvents : ~log[i].running
    /\ MasterFailureIsFatal

\* the failure: the push could not be written to, the run returns with that
\* error and the session is torn down while `keyctl padd` may still run
C18_AbandonedPush ==
    /\ Done
    /\ Count("get_remote") = 1
    /\ \E i \in Events("keyctl") : log[i].running /\ log[i].kind = "write_err"
    /\ Count("ssh_Oexit") = 1
    /\ result = Err("keyctl_io", "push", -1, NoText)

(***************************************************************************)
(* C19.  As claimed: every keychain failure is fatal: whenever a keychain  *)
(* read or write fails, the run ends in an error and no push is performed  *)
(* afterwards.                                                             *)
(***************************************************************************)
KeychainEvents == Events("kc_get") \cup Events("kc_set")

NoPushAfter(i) == \A k \in Events("keyctl") : k < i

FatalKeychainFailure(i) ==
    /\ result.kind = "err"
    /\ result.msg = log[i].op
    /\ NoPushAfter(i)
    /\ Count("keyctl") = 0
    /\ Done => exit_code = 1

C19_KeychainFailureFatal ==
    \A i \in KeychainEvents :
        ~log[i].ok =>
            /\ NoPushAfter(i)
            /\ Done => (result.kind = "err" /\ exit_code = 1)

\* the step that follows event i of the history, or the one the run is at
NextIs(i, op, at) == IF i < Len(log) THEN log[i + 1].op = op ELSE pc = at

\* the push stage (lines 132-143) begins with the read of the aspect-reauth entry
InPushStage(i) ==
    \E j \in Events("kc_get") : j <= i /\ log[j].name = "aspect-reauth"

\* C19, amended: a keychain failure is fatal, with no push, when it is the
\* read or the store of the login path (lines 120-125) or the fallback read
\* of the helper's entry for the push (lines 135-137).  A failed read of the
\* aspect-reauth entry before the push is not fatal: the helper's entry is
\* read instead; and a failed store of that password back into aspect-reauth
\* is only printed: the push follows.
C19_KeychainFailureFatalExceptSync ==
    \A i \in KeychainEvents :
        ~log[i].ok =>
            IF log[i].op = "kc_get" /\ log[i].name = "aspect-reauth"
            THEN NextIs(i, "kc_get", "kc_get_fallback")
            ELSE IF log[i].op = "kc_set" /\ InPushStage(i)
            THEN /\ NextIs(i, "keyctl", "keyctl")
                 /\ \E w \in DOMAIN warnings :
                       warnings[w] = "failed to sync aspect-reauth password"
            ELSE FatalKeychainFailure(i)

\* both tolerated failures in one run, which still pushes and succeeds
C19_Witness ==
    /\ Done
    /\ \E i \in Events("kc_get") : ~log[i].ok /\ log[i].name = "aspect-reauth"
    /\ \E i \in Events("kc_set") : ~log[i].ok /\ InPushStage(i)
    /\ Count("keyctl") = 1
    /\ result = Ok("synced")
    /\ exit_code = 0

(***************************************************************************)
(* C20.  All remote commands of a run go through the one session: the      *)
(* probe before the push, the push and the probe after it are built by     *)
(* command() of the same session, which leaves the session as it was.      *)
(* Each is `ssh`, the extra arguments, `-S <socketPath>` exactly when the   *)
(* session owns a socket, the batch options, `--`, the host, the command;  *)
(* all agree on everything but the command; and until the teardown the     *)
(* session holds the socket it was built with.                             *)
(***************************************************************************)
RemoteCommandName(op) == IF op = "keyctl" THEN "keyctl" ELSE Helper

\* the command line without its last word, the remote command
ToHost(a) == SubSeq(a, 1, Len(a) - 1)

BuiltBySession(a, cmd) ==
    LET n == Len(args.ssh_args)
        m == IF SessionOwnsSocket THEN n + 3 ELSE n + 1
    IN  /\ Len(a) = m + Len(BatchOptions) + 3
        /\ a[1] = "ssh"
        /\ \A k \in 1..n : a[k + 1] = args.ssh_args[k]
        /\ IF SessionOwnsSocket
           THEN a[n + 2] = "-S" /\ a[n + 3] = SocketPath
           ELSE \A k \in DOMAIN a : a[k] \notin {"-S", SocketPath}
        /\ \A k \in 1..Len(BatchOptions) : a[m + k] = BatchOptions[k]
        /\ a[Len(a) - 2] = "--"
        /\ a[Len(a) - 1] = args.host
        /\ a[Len(a)] = cmd

C20_RemoteCommandsShareSession ==
    /\ \A i \in RemoteCommandEvents :
          BuiltBySession(log[i].argv, RemoteCommandName(log[i].op))
    /\ \A i, j \in RemoteCommandEvents : ToHost(log[i].argv) = ToHost(log[j].argv)
    /\ (SessionBuilt /\ TeardownEvents = {}) =>
          sock = IF SessionOwnsSocket THEN "mux" ELSE "none"

\* three remote commands on an owned socket, with extra ssh arguments
C20_Witness ==
    /\ Done
    /\ SessionOwnsSocket
    /\ args.ssh_args # <<>>
    /\ Count("get_remote") = 1 /\ Count("keyctl") = 1 /\ Count("get_post") = 1
    /\ \A i \in RemoteCommandEvents :
          SubSeq(log[i].argv, 1, 4) = <<"ssh", "-p 23", "-S", SocketPath>>

(***************************************************************************)
(* C21.  As claimed: in a run where the login ran and every keychain       *)
(* operation succeeded, the bytes written to `keyctl padd` are the         *)
(* password read from the helper's AspectWorkflows entry right after the   *)
(* login, stored into the aspect-reauth entry and read back from it for    *)
(* the push: the value the login left, never one the keychain held before  *)
(* it.                                                                     *)
(***************************************************************************)
\* event j wrote a payload to keyctl's input
WrotePayload(j) == log[j].op = "keyctl" /\ log[j].val # NoEntry

\* the chain login, read of the helper's entry, store, read back, all before j
\* and all carrying the value v
CopiedThroughKeychain(j, v) ==
    \E l \in Events("login") :
        /\ log[l].ok
        /\ l + 3 < j
        /\ log[l + 1].op = "kc_get" /\ log[l + 1].name = "AspectWorkflows"
        /\ log[l + 1].val = v
        /\ log[l + 2].op = "kc_set" /\ log[l + 2].name = "aspect-reauth"
        /\ log[l + 2].val = v
        /\ \E r \in Events("kc_get") :
              /\ l + 2 < r /\ r < j
              /\ log[r].name = "aspect-reauth"
              /\ log[r].val = v

C21_PushedPasswordIsFresh ==
    (LoginSucceeded /\ KeychainAllOk) =>
        \A j \in Events("keyctl") :
            WrotePayload(j) =>
                /\ log[j].val = "new"
                /\ CopiedThroughKeychain(j, log[j].val)
                /\ kc["aspect-reauth"] = log[j].val

\* the login's helper stored a fresh password in its entry
LoginStored == \E l \in Events("login") : log[l].name = "stored"

\* C21, amended: in such a run the bytes written to `keyctl padd` are the
\* password the helper's AspectWorkflows entry holds after the login, read
\* from it, stored into the aspect-reauth entry and read back for the push.
\* They are the fresh password when the login stored one; a helper that
\* exits 0 without storing leaves the entry's earlier password to be pushed.
C21_PushedPasswordIsReadAfterLogin ==
    (LoginSucceeded /\ KeychainAllOk) =>
        \A j \in Events("keyctl") :
            WrotePayload(j) =>
                /\ log[j].val = kc["AspectWorkflows"]
                /\ CopiedThroughKeychain(j, log[j].val)
                /\ kc["aspect-reauth"] = log[j].val
                /\ LoginStored => log[j].val = "new"

\* a login that stored a fresh password over an older one, followed by a
\* push of the fresh password, which the remote accepts
C21_Witness ==
    /\ Done
    /\ LoginSucceeded
    /\ LoginStored
    /\ KeychainAllOk
    /\ \E j \in Events("keyctl") : log[j].ok /\ log[j].val = "new"
    /\ result = Ok("synced")

====
